---- MODULE Spec2Model ----
(***************************************************************************)
(* A model of the test scripts of the Event Horizon site: the unittest     *)
(* classes (class fixtures, per-test fixtures, test bodies as sequences of *)
(* browser actions, waits and assertions), the fixture HTTP server on port *)
(* 8000, the Playwright browser with its pages and storage contexts, and   *)
(* the scripts that are run as programs.                                   *)
(***************************************************************************)
EXTENDS Integers, Sequences, FiniteSets, TLC

VARIABLES
    run,        \* the test classes of this run, in loading order
    ci,         \* index in run of the class being run
    phase,      \* what the runner is executing
    sp,         \* index of the next step of the current phase
    cur,        \* the running test method, or NoTest
    todo,       \* test methods of the current class still to run
    outcome,    \* test method -> notrun / running / pass / fail / error
    cause,      \* test method -> none / assert / timeout / exception
    subOutcome, \* <<test, k>> -> outcome of the k-th subTest block, once it raised
    failedAt,   \* body step at which the running test was aborted, or 0
    trace,      \* body steps the running test has executed, in execution order
    classErr,   \* class -> exception raised by its setUpClass, or none
    port,       \* who listens on port 8000: free, other, or the owning class
    flips,      \* how often another process took or released the port
    sock,       \* class -> state of cls.server's socket
    thread,     \* class -> state of cls.server_thread
    loop,       \* class -> state of cls.loop
    pw,         \* class -> state of cls.playwright
    browser,    \* class -> state of cls.browser
    pages,      \* open pages: page id -> record
    storage,    \* live storage contexts: context id -> localStorage content
    nextPid,    \* id of the next page to be created
    pageRef,    \* the page the running test refers to (self.page / page), or 0
    prog,       \* the script run as a program, or none
    files,      \* file name -> what the script's patterns find in it, or missing
    mainPc,     \* index of the next call of the script's __main__ block
    fnResult,   \* test function -> how its call ended, for those called
    status,     \* the script's process: none / running / exited
    exitCode,   \* exit status of the script's process once it has exited
    srv,        \* the fixture server seen from its clients: none / serving / stopped
    backlog,    \* connections waiting in the listen queue, oldest first
    handling,   \* the page whose request the server is handling, or 0
    req,        \* page -> state of its current request
    sent,       \* page -> number of requests it has issued
    check,      \* the static test method run on the directory, or none
    tree,       \* file of the directory -> whether it holds what the test asserts
    listing,    \* what os.listdir('.') returned when the module was imported
    targets,    \* the files the test method's loop goes through, in order
    ti,         \* index in targets of the next file
    round,      \* which of the two runs of the test method this is
    log,        \* the subTest blocks executed: run, file, outcome
    edited,     \* files whose content changed since the first run started
    ttest,      \* the test method followed statement by statement, or none
    tpc,        \* index of its next statement
    tout,       \* its outcome: none / running / pass / fail / error
    dur,        \* the most milliseconds the page has needed for an effect it started
    pending,    \* milliseconds left until the running effect completes, 0: none runs
    goal,       \* the element as the running effect leaves it
    el,         \* the element the test looks at, as it is now
    el0,        \* the element as the page file gives it
    reads,      \* the values get_scroll_left has returned, oldest first
    maxScroll,  \* the largest scrollLeft of the carousel, in cards
    emitted,    \* the console messages the page has emitted, oldest first
    error_message, \* the variable of that name in test_translation_error_handling
    driver,     \* the Playwright driver the test started: none / started / stopped
    chromium,   \* the browser the test launched: none / open / closed
    fn,         \* the function applied to an input, or none
    hrefs,      \* the href values of the page, in document order
    roundedDivs,       \* the div.rounded-lg elements of the page, in document order
    title,      \* the title of index.html
    verdict     \* function -> result, once applied

vars == <<run, ci, phase, sp, cur, todo, outcome, cause, subOutcome, failedAt,
          trace, classErr, port, flips, sock, thread, loop, pw, browser,
          pages, storage, nextPid, pageRef,
          prog, files, mainPc, fnResult, status, exitCode,
          srv, backlog, handling, req, sent,
          check, tree, listing, targets, ti, round, log, edited,
          ttest, tpc, tout, dur, pending, goal, el, el0, reads, maxScroll,
          emitted, error_message, driver, chromium,
          fn, hrefs, roundedDivs, title, verdict>>

scriptVars == <<prog, files, mainPc, fnResult, status, exitCode>>
httpVars   == <<srv, backlog, handling, req, sent>>
staticVars == <<check, tree, listing, targets, ti, round, log, edited>>
stepVars   == <<ttest, tpc, tout, dur, pending, goal, el, el0, reads, maxScroll,
                emitted, error_message, driver, chromium>>
pureVars   == <<fn, hrefs, roundedDivs, title, verdict>>

\* What no step of a unittest run of the browser classes changes: the
\* classes loaded, the state of the scripts run as programs, the requests
\* seen one by one, and the static tests on the directory.
frame == <<run, scriptVars, httpVars, staticVars, stepVars, pureVars>>

runnerVars == <<frame, ci, phase, sp, cur, todo>>
resultVars == <<outcome, cause, subOutcome, failedAt, trace, classErr>>
serverVars == <<port, sock, thread>>
engineVars == <<loop, pw, browser>>
pageVars   == <<pages, storage, nextPid, pageRef>>

NoTest == "none"

\* How often another process may take or release port 8000 during one run.
MaxPortFlips == 2

----------------------------------------------------------------------------
(* The test classes and their fixtures.                                    *)

Classes ==
    {"TestWebsite", "TestBrowser", "TestBrowserDarkMode", "TestDarkMode",
     "TestAnimations", "TestBrowserInteractions", "TestBrowserAnimations",
     "TestInternationalization", "TestSharedElements"}

\* The statements of each setUpClass, in program order.
SetUpClassSteps(c) ==
    CASE c = "TestWebsite" ->
            <<"portcheck", "bind", "thread", "loop", "pwstart", "launch">>
      [] c \in {"TestBrowser", "TestAnimations"} ->
            <<"bind", "thread", "loop", "pwstart", "launch">>
      [] c \in {"TestBrowserDarkMode", "TestBrowserInteractions",
                "TestInternationalization"} ->
            <<"loop", "pwstart", "launch">>
      [] c = "TestBrowserAnimations" -> <<"pwstart", "launch">>
      [] OTHER -> <<>>

\* Variant of TearDownClassSteps that joins the serving thread before it
\* asks the server to shut down; C11_TearDownClassCompletes tells it from
\* TearDownClassSteps.
TearDownClassStepsJoinFirst(c) ==
    CASE c \in {"TestWebsite", "TestBrowser", "TestAnimations"} ->
            <<"join", "shutdown", "server_close",
              "browser_close", "pwstop", "loop_close">>
      [] c \in {"TestBrowserDarkMode", "TestBrowserInteractions",
                "TestInternationalization"} ->
            <<"browser_close", "pwstop", "loop_close">>
      [] c = "TestBrowserAnimations" -> <<"browser_close", "pwstop">>
      [] OTHER -> <<>>

\* The statements of each tearDownClass, in program order.
TearDownClassSteps(c) ==
    CASE c \in {"TestWebsite", "TestBrowser", "TestAnimations"} ->
            <<"shutdown", "server_close", "join",
              "browser_close", "pwstop", "loop_close">>
      [] c \in {"TestBrowserDarkMode", "TestBrowserInteractions",
                "TestInternationalization"} ->
            <<"browser_close", "pwstop", "loop_close">>
      [] c = "TestBrowserAnimations" -> <<"browser_close", "pwstop">>
      [] OTHER -> <<>>

\* The statements of each setUp.
SetUpSteps(c) ==
    CASE c = "TestWebsite" -> <<"newpage", "emulate">>
      [] c \in {"TestBrowser", "TestBrowserDarkMode", "TestBrowserInteractions",
                "TestBrowserAnimations", "TestInternationalization"} ->
            <<"newpage">>
      [] OTHER -> <<>>

\* The statements of each tearDown.
TearDownSteps(c) ==
    IF SetUpSteps(c) # <<>> THEN <<"closepage">> ELSE <<>>

----------------------------------------------------------------------------
(* The test methods and their bodies.  A body is the sequence of its       *)
(* statements: k is the kind of statement, tg what it acts on or probes,   *)
(* sub the subTest block it stands in (0: none).                           *)

S(k, tg, b) == [k |-> k, tg |-> tg, sub |-> b]

\* await self.get_theme_state() followed by the three assertions on it.
ThemeStateProbes(dk) ==
    << S("act", "other", 0), S("probe", dk, 0),
       S("probe", "other", 0), S("probe", "other", 0) >>

\* One subTest block of TestAnimations: check_anime_defined(page_path).
AnimeBlock(b) ==
    << S("newpage", "other", b), S("goto", "other", b), S("act", "other", b),
       S("probe", "other", b), S("closepage", "other", b) >>

\* One subTest block of a static test: read the file, assert on its content.
StaticBlock(b) ==
    << S("read", "other", b), S("probe", "other", b) >>

\* The language round trip of test_language_switcher_flow / test_language_switcher.
LanguageFlow ==
    << S("goto", "other", 0), S("act", "other", 0), S("act", "other", 0),
       S("probe", "fr", 0),
       S("click", "en", 0), S("wait", "en", 0), S("act", "other", 0),
       S("probe", "en", 0),
       S("click", "fr", 0), S("wait", "fr", 0), S("act", "other", 0),
       S("probe", "fr", 0) >>

TestsOf(c) ==
    CASE c = "TestWebsite" ->
            {"TestWebsite.test_theme_switcher",
             "TestWebsite.test_carousel_navigation_buttons"}
      [] c = "TestBrowser" ->
            {"TestBrowser.test_theme_switcher",
             "TestBrowser.test_language_switcher_updates_text",
             "TestBrowser.test_language_switcher_flow"}
      [] c = "TestBrowserDarkMode" -> {"TestBrowserDarkMode.test_theme_toggle"}
      [] c = "TestDarkMode" ->
            {"TestDarkMode.test_quick_link_dark_mode_color_reset"}
      [] c = "TestAnimations" ->
            {"TestAnimations.test_anime_is_defined_on_all_pages"}
      [] c = "TestBrowserInteractions" ->
            {"TestBrowserInteractions.test_theme_switcher_toggle"}
      [] c = "TestBrowserAnimations" ->
            {"TestBrowserAnimations.test_back_to_top_button"}
      [] c = "TestInternationalization" ->
            {"TestInternationalization.test_language_switcher"}
      [] c = "TestSharedElements" ->
            {"TestSharedElements.test_alpine_version",
             "TestSharedElements.test_tailwind_cdn_present"}
      [] OTHER -> {}

Body(t) ==
    CASE t = "TestWebsite.test_theme_switcher" ->
            << S("goto", "other", 0), S("wait", "sel", 0) >>
            \o ThemeStateProbes("light")
            \o << S("click", "theme", 0), S("sleep", "other", 0) >>
            \o ThemeStateProbes("dark")
            \o << S("click", "theme", 0), S("sleep", "other", 0) >>
            \o ThemeStateProbes("light")
      [] t = "TestWebsite.test_carousel_navigation_buttons" ->
            << S("goto", "other", 0), S("wait", "sel", 0), S("act", "other", 0),
               S("act", "other", 0),
               S("click", "other", 0), S("sleep", "other", 0),
               S("act", "other", 0), S("probe", "other", 0),
               S("click", "other", 0), S("sleep", "other", 0),
               S("act", "other", 0), S("probe", "other", 0) >>
      [] t = "TestBrowser.test_theme_switcher" ->
            << S("goto", "other", 0), S("act", "other", 0), S("probe", "light", 0),
               S("click", "theme", 0), S("act", "other", 0), S("probe", "dark", 0),
               S("click", "theme", 0), S("act", "other", 0), S("probe", "light", 0) >>
      [] t = "TestBrowser.test_language_switcher_updates_text" ->
            << S("goto", "other", 0), S("act", "other", 0), S("probe", "fr", 0),
               S("click", "en", 0), S("wait", "en", 0),
               S("act", "other", 0), S("probe", "en", 0) >>
      [] t \in {"TestBrowser.test_language_switcher_flow",
                "TestInternationalization.test_language_switcher"} ->
            LanguageFlow
      [] t = "TestBrowserDarkMode.test_theme_toggle" ->
            << S("goto", "other", 0),
               S("act", "other", 0), S("probe", "other", 0),
               S("act", "other", 0), S("probe", "other", 0),
               S("act", "other", 0), S("probe", "light", 0), S("probe", "other", 0),
               S("click", "theme", 0), S("sleep", "other", 0),
               S("probe", "dark", 0), S("probe", "other", 0) >>
      [] t = "TestDarkMode.test_quick_link_dark_mode_color_reset" ->
            << S("read", "other", 0), S("probe", "other", 0), S("probe", "other", 0) >>
      [] t = "TestAnimations.test_anime_is_defined_on_all_pages" ->
            AnimeBlock(1) \o AnimeBlock(2)
      [] t = "TestBrowserInteractions.test_theme_switcher_toggle" ->
            << S("goto", "other", 0), S("act", "other", 0), S("act", "other", 0),
               S("probe", "other", 0), S("probe", "other", 0),
               S("act", "other", 0), S("probe", "light", 0),
               S("act", "other", 0), S("probe", "ls_init", 0),
               S("click", "theme", 0), S("sleep", "other", 0),
               S("act", "other", 0), S("probe", "dark", 0),
               S("act", "other", 0), S("probe", "ls_dark", 0),
               S("click", "theme", 0), S("sleep", "other", 0),
               S("act", "other", 0), S("probe", "light", 0),
               S("act", "other", 0), S("probe", "ls_light", 0) >>
      [] t = "TestBrowserAnimations.test_back_to_top_button" ->
            << S("goto", "other", 0), S("act", "other", 0), S("wait", "sel", 0),
               S("act", "other", 0), S("probe", "other", 0),
               S("click", "other", 0), S("wait", "sel", 0),
               S("act", "other", 0), S("probe", "other", 0) >>
      [] t \in {"TestSharedElements.test_alpine_version",
                "TestSharedElements.test_tailwind_cdn_present"} ->
            StaticBlock(1) \o StaticBlock(2)
      [] OTHER -> <<>>

\* The subTest blocks of a test method.
SubsOf(t) == {Body(t)[i].sub : i \in 1..Len(Body(t))} \ {0}

\* The runs: the classes one invocation of the runner loads, in its order.
Runs ==
    { <<"TestWebsite">>, <<"TestBrowser">>, <<"TestAnimations">>,
      <<"TestBrowserDarkMode", "TestDarkMode">>,
      <<"TestBrowserInteractions">>, <<"TestBrowserAnimations">>,
      <<"TestInternationalization">>, <<"TestSharedElements">>,
      <<"TestWebsite", "TestAnimations">> }

----------------------------------------------------------------------------
(* State after the runner has loaded the classes and before it runs any.   *)

RunTests(r) == UNION {TestsOf(r[i]) : i \in 1..Len(r)}

RunClasses(r) == {r[i] : i \in 1..Len(r)}

\* No script is run as a program.
ScriptIdle ==
    /\ prog = "none"
    /\ files = <<>>
    /\ mainPc = 0
    /\ fnResult = <<>>
    /\ status = "none"
    /\ exitCode = 0

\* No request is followed one by one.
HttpIdle ==
    /\ srv = "none"
    /\ backlog = <<>>
    /\ handling = 0
    /\ req = <<>>
    /\ sent = <<>>

\* No static test is run on the directory.
StaticIdle ==
    /\ check = "none"
    /\ tree = <<>>
    /\ listing = <<>>
    /\ targets = <<>>
    /\ ti = 0
    /\ round = 0
    /\ log = <<>>
    /\ edited = {}

\* An element of which nothing is known.
NoElem == [tag |-> "none", src |-> "absent", bg |-> FALSE, scroll |-> 0, opaque |-> FALSE]

\* No test method is followed statement by statement.
StepIdle ==
    /\ ttest = "none"
    /\ tpc = 0
    /\ tout = "none"
    /\ dur = 0
    /\ pending = 0
    /\ goal = NoElem
    /\ el = NoElem
    /\ el0 = NoElem
    /\ reads = <<>>
    /\ maxScroll = 0
    /\ emitted = <<>>
    /\ error_message = ""
    /\ driver = "none"
    /\ chromium = "none"

\* No function is applied to an input.
PureIdle ==
    /\ fn = "none"
    /\ hrefs = <<>>
    /\ roundedDivs = <<>>
    /\ title = ""
    /\ verdict = <<>>

Init ==
    /\ run \in Runs
    /\ ci = 1
    /\ phase = "setUpClass"
    /\ sp = 1
    /\ cur = NoTest
    /\ todo = {}
    /\ outcome = [t \in RunTests(run) |-> "notrun"]
    /\ cause = [t \in RunTests(run) |-> "none"]
    /\ subOutcome = <<>>
    /\ failedAt = 0
    /\ trace = <<>>
    /\ classErr = [c \in RunClasses(run) |-> "none"]
    /\ port \in {"free", "other"}
    /\ flips = 0
    /\ sock = [c \in RunClasses(run) |-> "none"]
    /\ thread = [c \in RunClasses(run) |-> "none"]
    /\ loop = [c \in RunClasses(run) |-> "none"]
    /\ pw = [c \in RunClasses(run) |-> "none"]
    /\ browser = [c \in RunClasses(run) |-> "none"]
    /\ pages = <<>>
    /\ storage = <<>>
    /\ nextPid = 1
    /\ pageRef = 0
    /\ ScriptIdle
    /\ HttpIdle
    /\ StaticIdle
    /\ StepIdle
    /\ PureIdle

Cls == run[ci]

Running == phase # "done"

\* The runner goes on to the next class of the run, or ends the run.
NextClass ==
    /\ ci' = ci + 1
    /\ phase' = IF ci + 1 > Len(run) THEN "done" ELSE "setUpClass"
    /\ sp' = 1
    /\ cur' = NoTest
    /\ todo' = {}
    /\ UNCHANGED frame

\* The next statement of the current phase.
Proceed ==
    /\ sp' = sp + 1
    /\ UNCHANGED <<frame, ci, phase, cur, todo>>

----------------------------------------------------------------------------
(* Another process on the machine takes or releases port 8000.             *)

OtherProcessBinds ==
    /\ Running
    /\ flips < MaxPortFlips
    /\ port = "free"
    /\ port' = "other"
    /\ flips' = flips + 1
    /\ UNCHANGED <<runnerVars, resultVars, sock, thread, engineVars, pageVars>>

OtherProcessReleases ==
    /\ Running
    /\ flips < MaxPortFlips
    /\ port = "other"
    /\ port' = "free"
    /\ flips' = flips + 1
    /\ UNCHANGED <<runnerVars, resultVars, sock, thread, engineVars, pageVars>>

----------------------------------------------------------------------------
(* setUpClass.                                                             *)

AtClassStep(k) ==
    /\ phase = "setUpClass"
    /\ sp <= Len(SetUpClassSteps(Cls))
    /\ SetUpClassSteps(Cls)[sp] = k

\* Variant of AfterSetUpClassRaise in which the class's tests run all the
\* same; C3_SetupFailureSkipsClass tells it from AfterSetUpClassRaise.
AfterSetUpClassRaisePick ==
    /\ phase' = "pick"
    /\ todo' = TestsOf(Cls)
    /\ sp' = 1
    /\ UNCHANGED <<frame, ci, cur>>

\* Where the runner goes when setUpClass raises: the class's tests and its
\* tearDownClass are skipped.
AfterSetUpClassRaise == NextClass

SetUpClassRaises(exc) ==
    /\ classErr' = [classErr EXCEPT ![Cls] = exc]
    /\ AfterSetUpClassRaise
    /\ UNCHANGED <<outcome, cause, subOutcome, failedAt, trace>>

\* Variant of is_port_in_use that never finds the port taken;
\* C1_PortInUseRaisesConnectionError tells it from is_port_in_use.
is_port_in_use_never(p) == FALSE

\* s.connect_ex(('localhost', port)) == 0: something accepts connections there.
is_port_in_use(p) == p # "free"

PortCheck ==
    /\ AtClassStep("portcheck")
    /\ IF is_port_in_use(port)
         THEN SetUpClassRaises("ConnectionError")
         ELSE Proceed /\ UNCHANGED resultVars
    /\ UNCHANGED <<serverVars, flips, engineVars, pageVars>>

\* socketserver.TCPServer(("", 8000), handler): bind and listen, or OSError.
ServerBind ==
    /\ AtClassStep("bind")
    /\ IF port # "free"
         THEN /\ SetUpClassRaises("OSError")
              /\ UNCHANGED <<port, sock>>
         ELSE /\ port' = Cls
              /\ sock' = [sock EXCEPT ![Cls] = "listening"]
              /\ Proceed
              /\ UNCHANGED resultVars
    /\ UNCHANGED <<thread, flips, engineVars, pageVars>>

\* cls.server_thread = Thread(target=serve_forever); daemon; start().
ThreadStart ==
    /\ AtClassStep("thread")
    /\ thread' = [thread EXCEPT ![Cls] = "serving"]
    /\ Proceed
    /\ UNCHANGED <<resultVars, port, sock, flips, engineVars, pageVars>>

NewEventLoop ==
    /\ AtClassStep("loop")
    /\ loop' = [loop EXCEPT ![Cls] = "open"]
    /\ Proceed
    /\ UNCHANGED <<resultVars, serverVars, flips, pw, browser, pageVars>>

\* async_playwright().start(): the driver starts, or the call raises.
PlaywrightStart ==
    /\ AtClassStep("pwstart")
    /\ \/ /\ pw' = [pw EXCEPT ![Cls] = "started"]
          /\ Proceed
          /\ UNCHANGED resultVars
       \/ /\ SetUpClassRaises("Error")
          /\ UNCHANGED pw
    /\ UNCHANGED <<serverVars, flips, loop, browser, pageVars>>

\* playwright.chromium.launch(): the browser starts, or the call raises.
BrowserLaunch ==
    /\ AtClassStep("launch")
    /\ \/ /\ browser' = [browser EXCEPT ![Cls] = "open"]
          /\ Proceed
          /\ UNCHANGED resultVars
       \/ /\ SetUpClassRaises("Error")
          /\ UNCHANGED browser
    /\ UNCHANGED <<serverVars, flips, loop, pw, pageVars>>

\* setUpClass returned: the runner turns to the class's test methods.
SetUpClassReturns ==
    /\ phase = "setUpClass"
    /\ sp > Len(SetUpClassSteps(Cls))
    /\ phase' = "pick"
    /\ todo' = TestsOf(Cls)
    /\ sp' = 1
    /\ UNCHANGED <<frame, ci, cur>>
    /\ UNCHANGED <<resultVars, serverVars, flips, engineVars, pageVars>>

----------------------------------------------------------------------------
(* tearDownClass.                                                          *)

AtTearDownClassStep(k) ==
    /\ phase = "tearDownClass"
    /\ sp <= Len(TearDownClassSteps(Cls))
    /\ TearDownClassSteps(Cls)[sp] = k

\* cls.server.shutdown(): serve_forever leaves its loop.
ServerShutdown ==
    /\ AtTearDownClassStep("shutdown")
    /\ thread' = [thread EXCEPT ![Cls] = "exited"]
    /\ Proceed
    /\ UNCHANGED <<resultVars, port, sock, flips, engineVars, pageVars>>

\* cls.server.server_close(): the listening socket is closed.
ServerClose ==
    /\ AtTearDownClassStep("server_close")
    /\ sock' = [sock EXCEPT ![Cls] = "closed"]
    /\ port' = IF port = Cls THEN "free" ELSE port
    /\ Proceed
    /\ UNCHANGED <<resultVars, thread, flips, engineVars, pageVars>>

\* cls.server_thread.join()
ThreadJoin ==
    /\ AtTearDownClassStep("join")
    /\ thread[Cls] = "exited"
    /\ thread' = [thread EXCEPT ![Cls] = "joined"]
    /\ Proceed
    /\ UNCHANGED <<resultVars, port, sock, flips, engineVars, pageVars>>

\* Variant of PagesAfterBrowserClose that leaves the browser's pages open;
\* C10_NoPageAfterBrowserClose tells it from PagesAfterBrowserClose.
PagesAfterBrowserCloseKeep(c) == pages

\* What browser.close() leaves of the open pages: those of other browsers.
PagesAfterBrowserClose(c) ==
    [p \in {q \in DOMAIN pages : pages[q].cls # c} |-> pages[p]]

\* The storage contexts that are left when only the pages pgs are open: a
\* context that new_page() made for one page goes with that page (context 0
\* stands for a context no page owns).
LiveStorage(pgs) ==
    [x \in {y \in DOMAIN storage : y = 0 \/ \E p \in DOMAIN pgs : pgs[p].ctx = y}
        |-> storage[x]]

\* cls.browser.close()
BrowserClose ==
    /\ AtTearDownClassStep("browser_close")
    /\ browser' = [browser EXCEPT ![Cls] = "closed"]
    /\ pages' = PagesAfterBrowserClose(Cls)
    /\ storage' = LiveStorage(pages')
    /\ Proceed
    /\ UNCHANGED <<resultVars, serverVars, flips, loop, pw, nextPid, pageRef>>

\* cls.playwright.stop()
PlaywrightStop ==
    /\ AtTearDownClassStep("pwstop")
    /\ pw' = [pw EXCEPT ![Cls] = "stopped"]
    /\ Proceed
    /\ UNCHANGED <<resultVars, serverVars, flips, loop, browser, pageVars>>

\* cls.loop.close()
LoopClose ==
    /\ AtTearDownClassStep("loop_close")
    /\ loop' = [loop EXCEPT ![Cls] = "closed"]
    /\ Proceed
    /\ UNCHANGED <<resultVars, serverVars, flips, pw, browser, pageVars>>

TearDownClassReturns ==
    /\ phase = "tearDownClass"
    /\ sp > Len(TearDownClassSteps(Cls))
    /\ NextClass
    /\ UNCHANGED <<resultVars, serverVars, flips, engineVars, pageVars>>

----------------------------------------------------------------------------
(* Exceptions and how the runner records them.                             *)

\* Variant of Raises in which a timed-out wait raises the failure exception;
\* C6_TimeoutIsError tells it from Raises.
RaisesWaitAsAssertion(k) ==
    CASE k \in {"probe", "wait"} -> "AssertionError"
      [] k = "read" -> "FileNotFoundError"
      [] OTHER -> "Error"

\* The exception a statement of kind k raises when it does not succeed.
Raises(k) ==
    CASE k = "probe" -> "AssertionError"
      [] k = "wait" -> "TimeoutError"
      [] k = "read" -> "FileNotFoundError"
      [] OTHER -> "Error"

\* Variant of Classify that records every exception as a failure;
\* C7_TimeoutRecordedRunGoesOn tells it from Classify.
ClassifyAllFail(exc) == "fail"

\* unittest.TestCase: failureException (AssertionError) is a failure, any
\* other exception an error.
Classify(exc) == IF exc = "AssertionError" THEN "fail" ELSE "error"

CauseOf(k) ==
    CASE k = "probe" -> "assert"
      [] k = "wait" -> "timeout"
      [] OTHER -> "exception"

\* Variant of ResumeAt in which the body goes on with the next statement;
\* C5_ProbeFailureEndsTest tells it from ResumeAt.
ResumeAtNextStatement(t, i) == i + 1

\* The statement at which the body goes on after statement i raised: the end
\* of the body, or the first statement after the subTest block i stands in.
ResumeAt(t, i) ==
    IF Body(t)[i].sub = 0
      THEN Len(Body(t)) + 1
      ELSE LET later == {j \in (i + 1)..Len(Body(t)) : Body(t)[j].sub # Body(t)[i].sub}
           IN  IF later = {} THEN Len(Body(t)) + 1
               ELSE CHOOSE j \in later : \A m \in later : j <= m

----------------------------------------------------------------------------
(* Pages, storage contexts and the site as the browser shows it.           *)

EmptyStorage == [theme |-> "none", lang |-> "none"]

StorageOf(x) == IF x \in DOMAIN storage THEN storage[x] ELSE EmptyStorage

\* Variant of NewPageContext in which every page shares one context;
\* C9_NoLeakBetweenTests tells it from NewPageContext.
NewPageContextShared(pid) == 0

\* browser.new_page() opens the page in a browser context of its own.
NewPageContext(pid) == pid

\* A page as browser.new_page() returns it: about:blank.
BlankPage(pid, c, who, fromSetUp) ==
    [cls |-> c, owner |-> who, bySetUp |-> fromSetUp, ctx |-> NewPageContext(pid),
     dark |-> FALSE, lang |-> "fr", loaded |-> FALSE, users |-> {}]

OpenPage(c, who, fromSetUp) ==
    /\ pages' = (nextPid :> BlankPage(nextPid, c, who, fromSetUp)) @@ pages
    /\ storage' = (NewPageContext(nextPid) :> StorageOf(NewPageContext(nextPid)))
                    @@ storage
    /\ pageRef' = nextPid
    /\ nextPid' = nextPid + 1

\* page.close(): the page goes, and with it the context it alone had.
ClosePage(pid) ==
    /\ pages' = [p \in DOMAIN pages \ {pid} |-> pages[p]]
    /\ storage' = LiveStorage(pages')
    /\ UNCHANGED <<nextPid, pageRef>>

\* The page after the site's scripts ran on load: the persisted theme and
\* language are applied.
SiteLoad(pg) ==
    [pg EXCEPT !.dark = (StorageOf(pg.ctx).theme = "dark"),
               !.lang = IF StorageOf(pg.ctx).lang = "none" THEN "fr"
                        ELSE StorageOf(pg.ctx).lang,
               !.loaded = TRUE]

\* The page after a click on the theme toggle took effect.
SiteToggleTheme(pg) == [pg EXCEPT !.dark = ~pg.dark]

\* The page after a click on a data-lang control took effect.
SiteSetLang(pg, l) == [pg EXCEPT !.lang = l]

\* Variant of SiteStore in which the click that ends dark mode removes the
\* persisted theme; C20_TwoClicksEndLight tells it from SiteStore.
SiteStoreRemoves(pg, tg) ==
    CASE tg = "theme" ->
            [StorageOf(pg.ctx) EXCEPT !.theme = IF pg.dark THEN "none" ELSE "dark"]
      [] tg \in {"en", "fr"} -> [StorageOf(pg.ctx) EXCEPT !.lang = tg]
      [] OTHER -> StorageOf(pg.ctx)

\* The storage of the page's context after a click on tg took effect.
SiteStore(pg, tg) ==
    CASE tg = "theme" ->
            [StorageOf(pg.ctx) EXCEPT !.theme = IF pg.dark THEN "light" ELSE "dark"]
      [] tg \in {"en", "fr"} -> [StorageOf(pg.ctx) EXCEPT !.lang = tg]
      [] OTHER -> StorageOf(pg.ctx)

\* The page after a click on tg took effect.
SiteClick(pg, tg) ==
    CASE tg = "theme" -> SiteToggleTheme(pg)
      [] tg \in {"en", "fr"} -> SiteSetLang(pg, tg)
      [] OTHER -> pg

\* Variant of Holds in which a comparison of the main title is satisfied by
\* any title; C21_LanguageRoundTrip tells it from Holds.
HoldsAnyTitle(pg, tg) ==
    CASE tg = "light" -> ~pg.dark
      [] tg = "dark" -> pg.dark
      [] tg \in {"en", "fr"} -> TRUE
      [] tg = "ls_init" -> StorageOf(pg.ctx).theme \in {"none", "light"}
      [] tg = "ls_dark" -> StorageOf(pg.ctx).theme = "dark"
      [] tg = "ls_light" -> StorageOf(pg.ctx).theme = "light"
      [] OTHER -> TRUE

\* Whether the page satisfies what a probe or a wait on tg expects.
Holds(pg, tg) ==
    CASE tg = "light" -> ~pg.dark
      [] tg = "dark" -> pg.dark
      [] tg \in {"en", "fr"} -> pg.lang = tg
      [] tg = "ls_init" -> StorageOf(pg.ctx).theme \in {"none", "light"}
      [] tg = "ls_dark" -> StorageOf(pg.ctx).theme = "dark"
      [] tg = "ls_light" -> StorageOf(pg.ctx).theme = "light"
      [] OTHER -> TRUE

\* The results a probe or wait on tg can have: what the page state decides,
\* or either one for what the model does not follow (selectors, styles,
\* scroll offsets, file contents).
Verdicts(tg) ==
    IF tg \in {"other", "sel"} \/ pageRef \notin DOMAIN pages
      THEN BOOLEAN
      ELSE {Holds(pages[pageRef], tg)}

----------------------------------------------------------------------------
(* The runner takes the test methods of the class one by one.              *)

\* A new TestCase instance is made for the method and its setUp is entered.
PickTest ==
    /\ phase = "pick"
    /\ \E t \in todo :
          /\ cur' = t
          /\ todo' = todo \ {t}
          /\ outcome' = [outcome EXCEPT ![t] = "running"]
    /\ phase' = "setUp"
    /\ sp' = 1
    /\ trace' = <<>>
    /\ failedAt' = 0
    /\ pageRef' = 0
    /\ UNCHANGED <<frame, ci, cause, subOutcome, classErr>>
    /\ UNCHANGED <<serverVars, flips, engineVars, pages, storage, nextPid>>

\* Every method of the class has run: tearDownClass is entered.
TestsDone ==
    /\ phase = "pick"
    /\ todo = {}
    /\ phase' = "tearDownClass"
    /\ sp' = 1
    /\ UNCHANGED <<frame, ci, cur, todo>>
    /\ UNCHANGED <<resultVars, serverVars, flips, engineVars, pageVars>>

AtSetUpStep(k) ==
    /\ phase = "setUp"
    /\ sp <= Len(SetUpSteps(Cls))
    /\ SetUpSteps(Cls)[sp] = k

\* setUp raised: the method is an error; its body and its tearDown are skipped.
SetUpRaises ==
    /\ outcome' = [outcome EXCEPT ![cur] = Classify("Error")]
    /\ cause' = [cause EXCEPT ![cur] = "exception"]
    /\ phase' = "pick"
    /\ sp' = 1
    /\ cur' = NoTest
    /\ UNCHANGED <<frame, ci, todo, subOutcome, failedAt, trace, classErr>>

\* self.page = browser.new_page()
SetUpNewPage ==
    /\ AtSetUpStep("newpage")
    /\ \/ /\ browser[Cls] = "open"
          /\ OpenPage(Cls, cur, TRUE)
          /\ Proceed
          /\ UNCHANGED resultVars
       \/ /\ SetUpRaises
          /\ UNCHANGED pageVars
    /\ UNCHANGED <<serverVars, flips, engineVars>>

\* self.page.emulate_media(reduced_motion='no-preference')
SetUpEmulateMedia ==
    /\ AtSetUpStep("emulate")
    /\ \/ /\ Proceed
          /\ UNCHANGED resultVars
       \/ SetUpRaises
    /\ UNCHANGED <<serverVars, flips, engineVars, pageVars>>

SetUpReturns ==
    /\ phase = "setUp"
    /\ sp > Len(SetUpSteps(Cls))
    /\ phase' = "body"
    /\ sp' = 1
    /\ UNCHANGED <<frame, ci, cur, todo>>
    /\ UNCHANGED <<resultVars, serverVars, flips, engineVars, pageVars>>

----------------------------------------------------------------------------
(* The body of the running test method, statement by statement.            *)

AtBodyStep(k) ==
    /\ phase = "body"
    /\ sp <= Len(Body(cur))
    /\ Body(cur)[sp].k = k

\* The current statement returns normally.
StepSucceeds ==
    /\ trace' = Append(trace, sp)
    /\ Proceed
    /\ UNCHANGED <<outcome, cause, subOutcome, failedAt, classErr>>

\* The current statement raises: inside a subTest block the block's outcome
\* is recorded and the body goes on after the block; otherwise the method
\* ends here.
StepRaises ==
    LET st == Body(cur)[sp]
        res == Classify(Raises(st.k))
    IN  /\ trace' = Append(trace, sp)
        /\ sp' = ResumeAt(cur, sp)
        /\ IF st.sub = 0
             THEN /\ outcome' = [outcome EXCEPT ![cur] = res]
                  /\ cause' = [cause EXCEPT ![cur] = CauseOf(st.k)]
                  /\ failedAt' = sp
                  /\ UNCHANGED subOutcome
             ELSE /\ subOutcome' = (<<cur, st.sub>> :> res) @@ subOutcome
                  /\ UNCHANGED <<outcome, cause, failedAt>>
        /\ UNCHANGED <<frame, ci, phase, cur, todo, classErr>>

\* The page the statement works on, marked as used by the running method.
Used(pg) == [pg EXCEPT !.users = @ \cup {cur}]

TouchPage ==
    /\ pages' = IF pageRef \in DOMAIN pages
                  THEN [pages EXCEPT ![pageRef] = Used(@)]
                  ELSE pages
    /\ UNCHANGED <<storage, nextPid, pageRef>>

\* The classes whose tests load http://localhost:8000/...
UsesHttp(c) ==
    c \in {"TestWebsite", "TestBrowser", "TestAnimations", "TestInternationalization"}

\* page.goto(url)
Goto ==
    /\ AtBodyStep("goto")
    /\ \/ /\ UsesHttp(Cls) => port # "free"
          /\ pageRef \in DOMAIN pages
          /\ pages' = [pages EXCEPT ![pageRef] = Used(SiteLoad(@))]
          /\ UNCHANGED <<storage, nextPid, pageRef>>
          /\ StepSucceeds
       \/ /\ StepRaises
          /\ TouchPage
    /\ UNCHANGED <<serverVars, flips, engineVars>>

\* query_selector, evaluate, inner_text, hover, ...: returns or raises.
Act ==
    /\ AtBodyStep("act")
    /\ \/ StepSucceeds
       \/ StepRaises
    /\ TouchPage
    /\ UNCHANGED <<serverVars, flips, engineVars>>

\* page.click(selector): the site reacts, or it does not, or the call raises.
Click ==
    /\ AtBodyStep("click")
    /\ \/ /\ pageRef \in DOMAIN pages
          /\ pages' = [pages EXCEPT ![pageRef] = Used(SiteClick(@, Body(cur)[sp].tg))]
          /\ storage' = [storage EXCEPT ![pages[pageRef].ctx] =
                            SiteStore(pages[pageRef], Body(cur)[sp].tg)]
          /\ UNCHANGED <<nextPid, pageRef>>
          /\ StepSucceeds
       \/ /\ TouchPage
          /\ StepSucceeds
       \/ /\ TouchPage
          /\ StepRaises
    /\ UNCHANGED <<serverVars, flips, engineVars>>

\* page.wait_for_function / page.wait_for_selector: returns once the
\* predicate holds, raises TimeoutError when it never does.
Wait ==
    /\ AtBodyStep("wait")
    /\ \E v \in Verdicts(Body(cur)[sp].tg) :
          IF v THEN StepSucceeds ELSE StepRaises
    /\ TouchPage
    /\ UNCHANGED <<serverVars, flips, engineVars>>

\* page.wait_for_timeout(ms): returns after the delay.
Sleep ==
    /\ AtBodyStep("sleep")
    /\ StepSucceeds
    /\ TouchPage
    /\ UNCHANGED <<serverVars, flips, engineVars>>

\* self.assert...(...) / assert ...
Probe ==
    /\ AtBodyStep("probe")
    /\ \E v \in Verdicts(Body(cur)[sp].tg) :
          IF v THEN StepSucceeds ELSE StepRaises
    /\ TouchPage
    /\ UNCHANGED <<serverVars, flips, engineVars>>

\* read_file_content(filepath): the content, or FileNotFoundError.
ReadFile ==
    /\ AtBodyStep("read")
    /\ \/ StepSucceeds
       \/ StepRaises
    /\ UNCHANGED <<serverVars, flips, engineVars, pageVars>>

\* page = await self.browser.new_page() in a test body.
BodyNewPage ==
    /\ AtBodyStep("newpage")
    /\ \/ /\ browser[Cls] = "open"
          /\ OpenPage(Cls, cur, FALSE)
          /\ StepSucceeds
       \/ /\ StepRaises
          /\ UNCHANGED pageVars
    /\ UNCHANGED <<serverVars, flips, engineVars>>

\* await page.close() in a test body.
BodyClosePage ==
    /\ AtBodyStep("closepage")
    /\ ClosePage(pageRef)
    /\ StepSucceeds
    /\ UNCHANGED <<serverVars, flips, engineVars>>

\* The outcome of a method whose body came to its end.
FinalOutcome(t) ==
    IF outcome[t] # "running" THEN outcome[t]
    ELSE LET subs == {subOutcome[x] : x \in {y \in DOMAIN subOutcome : y[1] = t}}
         IN  IF "error" \in subs THEN "error"
             ELSE IF "fail" \in subs THEN "fail" ELSE "pass"

\* The body is left, normally or by an exception: tearDown is entered.
BodyReturns ==
    /\ phase = "body"
    /\ sp > Len(Body(cur))
    /\ outcome' = [outcome EXCEPT ![cur] = FinalOutcome(cur)]
    /\ phase' = "tearDown"
    /\ sp' = 1
    /\ UNCHANGED <<frame, ci, cur, todo>>
    /\ UNCHANGED <<cause, subOutcome, failedAt, trace, classErr>>
    /\ UNCHANGED <<serverVars, flips, engineVars, pageVars>>

AtTearDownStep(k) ==
    /\ phase = "tearDown"
    /\ sp <= Len(TearDownSteps(Cls))
    /\ TearDownSteps(Cls)[sp] = k

\* self.page.close()
TearDownClosePage ==
    /\ AtTearDownStep("closepage")
    /\ ClosePage(pageRef)
    /\ Proceed
    /\ UNCHANGED <<resultVars, serverVars, flips, engineVars>>

TearDownReturns ==
    /\ phase = "tearDown"
    /\ sp > Len(TearDownSteps(Cls))
    /\ phase' = "pick"
    /\ sp' = 1
    /\ cur' = NoTest
    /\ UNCHANGED <<frame, ci, todo>>
    /\ UNCHANGED <<resultVars, serverVars, flips, engineVars, pageVars>>

----------------------------------------------------------------------------

Next ==
    \/ OtherProcessBinds
    \/ OtherProcessReleases
    \/ PortCheck
    \/ ServerBind
    \/ ThreadStart
    \/ NewEventLoop
    \/ PlaywrightStart
    \/ BrowserLaunch
    \/ SetUpClassReturns
    \/ PickTest
    \/ TestsDone
    \/ SetUpNewPage
    \/ SetUpEmulateMedia
    \/ SetUpReturns
    \/ Goto
    \/ Act
    \/ Click
    \/ Wait
    \/ Sleep
    \/ Probe
    \/ ReadFile
    \/ BodyNewPage
    \/ BodyClosePage
    \/ BodyReturns
    \/ TearDownClosePage
    \/ TearDownReturns
    \/ ServerShutdown
    \/ ServerClose
    \/ ThreadJoin
    \/ BrowserClose
    \/ PlaywrightStop
    \/ LoopClose
    \/ TearDownClassReturns

Spec == Init /\ [][Next]_vars

\* The run with its statements taken one after the other, none of them
\* waiting for ever: every Playwright wait has a timeout, shutdown() returns
\* once serve_forever has left its loop.
SpecLive == Spec /\ WF_vars(Next)

----------------------------------------------------------------------------
(* Properties of a run of the unittest classes.                            *)

RunnerSteps == <<ci, phase, sp>>' # <<ci, phase, sp>>

Ran(t) == outcome[t] # "notrun"

\* C1: when TestWebsite.setUpClass makes its port check while port 8000 is
\* in use, it raises ConnectionError with no TCP server created, no server
\* thread started and no browser launched, and no test method of the class
\* is ever run.
C1_PortInUseRaisesConnectionError ==
    /\ [][ (AtClassStep("portcheck") /\ port # "free" /\ RunnerSteps)
             => classErr'[Cls] = "ConnectionError" ]_vars
    /\ [](\A c \in DOMAIN classErr :
            classErr[c] = "ConnectionError"
              => /\ sock[c] = "none"
                 /\ thread[c] = "none"
                 /\ pw[c] = "none"
                 /\ browser[c] = "none"
                 /\ \A t \in TestsOf(c) : ~Ran(t))

C1_Witness ==
    /\ "TestWebsite" \in DOMAIN classErr
    /\ classErr["TestWebsite"] = "ConnectionError"
    /\ phase = "done"

\* C2: a setUpClass that fails after the fixture server was bound and its
\* thread started still has the server shut down, the port released and the
\* thread joined by the end of the run.
C2_ServerReleasedAfterSetupFailure ==
    phase = "done" =>
        \A c \in DOMAIN classErr :
            (classErr[c] # "none" /\ thread[c] # "none")
              => (thread[c] = "joined" /\ sock[c] = "closed" /\ port # c)

Prefix(n) == [i \in 1..n |-> i]

\* C5: a behavioural test executes its statements strictly in program
\* order, and the first probe that fails, at statement N, ends it: no later
\* statement of the test is executed and the failure recorded is that of N.
C5_ProbeFailureEndsTest ==
    (cur # NoTest /\ SubsOf(cur) = {}) =>
        /\ trace = Prefix(Len(trace))
        /\ cause[cur] = "assert" =>
              /\ failedAt = Len(trace)
              /\ Body(cur)[failedAt].k = "probe"
              /\ outcome[cur] = "fail"

C5_Witness ==
    /\ cur # NoTest
    /\ SubsOf(cur) = {}
    /\ phase = "tearDown"
    /\ cause[cur] = "assert"
    /\ failedAt > 1
    /\ failedAt < Len(Body(cur))

\* C6 as stated: a wait-for-condition that times out makes the outcome of
\* the check a fail.
C6_TimeoutIsFail ==
    \A t \in DOMAIN outcome : cause[t] = "timeout" => outcome[t] = "fail"

\* C6 amended: a wait-for-condition that times out raises TimeoutError and
\* makes the outcome of the check an error.
C6_TimeoutIsError ==
    \A t \in DOMAIN outcome : cause[t] = "timeout" => outcome[t] = "error"

C6_Witness ==
    \E t \in DOMAIN outcome :
        /\ cause[t] = "timeout"
        /\ Body(t)[failedAt].k = "wait"
        /\ cur = t

\* The classes of the run whose test methods have all been taken.
ClassesRun ==
    {run[i] : i \in {j \in 1..Len(run) :
                        j < ci \/ (j = ci /\ phase = "tearDownClass")}}

\* C7: a wait that exceeds its budget is recorded as an error, a status
\* other than that of an assertion mismatch (fail), and the remaining test
\* methods still run: a class whose setUpClass succeeded ends with an
\* outcome for each of its methods.
C7_TimeoutRecordedRunGoesOn ==
    /\ \A t \in DOMAIN outcome :
          /\ cause[t] = "timeout" => outcome[t] = "error"
          /\ cause[t] = "assert" => outcome[t] = "fail"
    /\ \A c \in ClassesRun :
          classErr[c] = "none"
            => \A t \in TestsOf(c) : outcome[t] \in {"pass", "fail", "error"}

C7_Witness ==
    /\ phase = "body"
    /\ \E t \in DOMAIN outcome : t # cur /\ cause[t] = "timeout"

\* The open pages that a setUp created.
SetUpPages == {p \in DOMAIN pages : pages[p].bySetUp}

\* C8: every page a test uses was created by its setUp, is used by that test
\* only and is closed by that test's tearDown, so that at most one page
\* created by setUp is open at any time.
C8_OnePagePerTest ==
    /\ \A p \in DOMAIN pages : pages[p].users # {} => pages[p].bySetUp
    /\ \A p \in SetUpPages : pages[p].users \subseteq {pages[p].owner}
    /\ Cardinality(SetUpPages) <= 1
    /\ phase \in {"pick", "tearDownClass"} => SetUpPages = {}

\* C9: whatever the tests run before it clicked, a test's page is in the
\* initial state once its goto has loaded it: no dark class, nothing
\* persisted, French text.
C9_NoLeakBetweenTests ==
    (/\ phase = "body"
     /\ sp > 1
     /\ Body(cur)[sp - 1].k = "goto"
     /\ trace # <<>>
     /\ trace[Len(trace)] = sp - 1
     /\ pageRef \in DOMAIN pages)
        => /\ ~pages[pageRef].dark
           /\ pages[pageRef].lang = "fr"
           /\ StorageOf(pages[pageRef].ctx) = EmptyStorage

C9_Witness ==
    /\ cur = "TestBrowser.test_language_switcher_flow"
    /\ phase = "body"
    /\ trace = <<1>>
    /\ sp = 2
    /\ outcome["TestBrowser.test_language_switcher_updates_text"] = "pass"
    /\ outcome["TestBrowser.test_theme_switcher"] = "fail"
    /\ cause["TestBrowser.test_theme_switcher"] = "assert"

\* C10: once tearDownClass has closed the browser, none of its pages is
\* open, also not one a check left open by failing before its page.close().
C10_NoPageAfterBrowserClose ==
    \A c \in DOMAIN browser :
        browser[c] = "closed" => \A p \in DOMAIN pages : pages[p].cls # c

C10_Witness ==
    /\ "TestAnimations" \in DOMAIN browser
    /\ browser["TestAnimations"] = "closed"
    /\ \E i \in 1..Len(trace) : trace[i] = 4
    /\ \A i \in 1..Len(trace) : trace[i] # 5

\* The theme clicks among the statements the running method has executed.
ThemeClicks ==
    Cardinality({i \in 1..(sp - 1) :
                    Body(cur)[i].k = "click" /\ Body(cur)[i].tg = "theme"})

\* The method has asserted on the root element's class since its last click.
ClassAsserted ==
    \E i \in 1..(sp - 1) :
        /\ Body(cur)[i].k = "probe"
        /\ Body(cur)[i].tg \in {"light", "dark"}
        /\ \A j \in i..(sp - 1) : Body(cur)[j].k # "click"

\* A theme test that has got this far without a failure, its page open.
ThemeTestAt(n) ==
    /\ phase = "body"
    /\ cur # NoTest
    /\ sp <= Len(Body(cur))
    /\ pageRef \in DOMAIN pages
    /\ ThemeClicks = n
    /\ ClassAsserted

LangClicks ==
    Cardinality({i \in 1..(sp - 1) :
                    Body(cur)[i].k = "click" /\ Body(cur)[i].tg \in {"en", "fr"}})

\* Since its last click the method has waited for the main title to be the
\* string of language l, and the wait has returned.
TitleWaited(l) ==
    \E i \in 1..(sp - 1) :
        /\ Body(cur)[i].k = "wait"
        /\ Body(cur)[i].tg = l
        /\ \A j \in i..(sp - 1) : Body(cur)[j].k # "click"

\* A language test that has got this far without a failure, its page open.
LangTestAt(n, l) ==
    /\ phase = "body"
    /\ cur # NoTest
    /\ sp <= Len(Body(cur))
    /\ pageRef \in DOMAIN pages
    /\ LangClicks = n
    /\ TitleWaited(l)

Released(c) ==
    /\ thread[c] \in {"none", "joined"}
    /\ sock[c] \in {"none", "closed"}
    /\ port # c
    /\ browser[c] \in {"none", "closed"}

\* C11: the run comes to its end, and at its end every class whose
\* setUpClass succeeded has completed tearDownClass: its server no longer
\* serves, the socket is closed, the serving thread is joined and the
\* browser is closed, also when a wait of a test timed out.
C11_TearDownClassCompletes ==
    /\ <>(phase = "done")
    /\ [](phase = "done" =>
            \A c \in RunClasses(run) : classErr[c] = "none" => Released(c))

C11_Witness ==
    /\ phase = "done"
    /\ \E c \in RunClasses(run) :
          /\ classErr[c] = "none"
          /\ thread[c] = "joined"
          /\ sock[c] = "closed"
          /\ browser[c] = "closed"
          /\ \E t \in TestsOf(c) : cause[t] = "timeout"

\* C28: whenever TestWebsite.setUpClass raises at a statement it executes
\* while another process holds port 8000, be it the port check or the bind
\* that follows it, the exception is ConnectionError.
C28_PortHeldRaisesConnectionError ==
    [][ (/\ AtClassStep("portcheck") \/ AtClassStep("bind")
         /\ Cls = "TestWebsite"
         /\ port = "other"
         /\ RunnerSteps)
          => classErr'[Cls] = "ConnectionError" ]_vars

\* C28, the case that refutes it: the other process bound the port after the
\* check had found it free, and the bind raised OSError.
C28_Witness ==
    /\ "TestWebsite" \in DOMAIN classErr
    /\ classErr["TestWebsite"] = "OSError"
    /\ port = "other"

----------------------------------------------------------------------------
(* The scripts that are run as programs (python test_apropos.py, python    *)
(* test_lazy_loading.py): the __main__ block calls the test functions.     *)

\* Most tags of one kind a page file holds.
MaxTags == 3

Scripts == {"test_apropos.py", "test_lazy_loading.py"}

\* The calls of each __main__ block, in program order.
Main(pr) ==
    CASE pr = "test_apropos.py" -> <<"test_apropos_links", "test_about_links">>
      [] pr = "test_lazy_loading.py" -> <<"test_lazy_loading_on_index_page">>
      [] OTHER -> <<>>

\* Whether the __main__ block calls inside try / except AssertionError.
CatchesAssertionError(pr) == pr = "test_lazy_loading.py"

\* The file each test function reads.
FileOf(f) ==
    CASE f = "test_apropos_links" -> "a-propos.html"
      [] f = "test_about_links" -> "a-propos-en.html"
      [] OTHER -> "index.html"

\* The statements of screenshot.py's main(), in program order.
ScreenshotSteps ==
    <<"thread", "launch", "newpage", "goto", "screenshot", "close">>

\* The files of the working directory a program reads or writes.  The
\* working directory is the site root: screenshot.py serves os.getcwd().
FilesOf(pr) ==
    IF pr = "screenshot.py" THEN {"index.html", "fixed_layout.png"}
    ELSE {FileOf(Main(pr)[i]) : i \in 1..Len(Main(pr))}

SeqsUpTo(T, n) == UNION {[1..m -> T] : m \in 0..n}

\* The substrings the script looks for in the tags its pattern matches.
Needles(pr) ==
    CASE pr = "test_lazy_loading.py" -> {"lazy", "data-src"}
      [] pr = "screenshot.py" -> {"pixels"}
      [] OTHER -> {"href"}

\* A file as the script sees it: absent, or the tags its re.findall pattern
\* matches, each tag given by the needles it contains.
FileStates(pr) ==
    {[exists |-> FALSE, tags |-> <<>>]}
      \cup {[exists |-> TRUE, tags |-> tg] : tg \in SeqsUpTo(SUBSET Needles(pr), MaxTags)}

\* test_apropos_links / test_about_links on the links found: at least two,
\* each with the expected href.
LinksResult(matches) ==
    IF Len(matches) < 2 THEN "AssertionError"
    ELSE IF \E i \in 1..Len(matches) : "href" \notin matches[i] THEN "AssertionError"
    ELSE "ok"

\* test_lazy_loading_on_index_page on the divs found.
LazyResult(divs) ==
    IF \E i \in 1..Len(divs) : "lazy" \notin divs[i] \/ "data-src" \notin divs[i]
      THEN "AssertionError" ELSE "ok"

\* How a call of test function f ends.
Call(f) ==
    IF ~files[FileOf(f)].exists THEN "FileNotFoundError"
    ELSE IF f = "test_lazy_loading_on_index_page"
      THEN LazyResult(files[FileOf(f)].tags)
      ELSE LinksResult(files[FileOf(f)].tags)

\* No unittest run takes place.
RunIdle ==
    /\ run = <<>>
    /\ ci = 1
    /\ phase = "done"
    /\ sp = 1
    /\ cur = NoTest
    /\ todo = {}
    /\ outcome = <<>>
    /\ cause = <<>>
    /\ subOutcome = <<>>
    /\ failedAt = 0
    /\ trace = <<>>
    /\ classErr = <<>>
    /\ port = "free"
    /\ flips = 0
    /\ sock = <<>>
    /\ thread = <<>>
    /\ loop = <<>>
    /\ pw = <<>>
    /\ browser = <<>>
    /\ pages = <<>>
    /\ storage = <<>>
    /\ nextPid = 1
    /\ pageRef = 0

unittestVars ==
    <<run, ci, phase, sp, cur, todo, resultVars, serverVars, flips,
      engineVars, pageVars>>

\* The programs: the test scripts and the screenshot script.
Programs == Scripts \cup {"screenshot.py"}

ScriptInit ==
    /\ RunIdle
    /\ HttpIdle
    /\ StaticIdle
    /\ StepIdle
    /\ PureIdle
    /\ prog \in Programs
    /\ files \in [FilesOf(prog) -> FileStates(prog)]
    /\ mainPc = 1
    /\ fnResult = <<>>
    /\ status = "running"
    /\ exitCode = 0

AtCall ==
    /\ status = "running"
    /\ mainPc <= Len(Main(prog))

\* The call returns; the script prints "Test passed" and goes on.
CallReturns ==
    /\ AtCall
    /\ Call(Main(prog)[mainPc]) = "ok"
    /\ fnResult' = (Main(prog)[mainPc] :> "ok") @@ fnResult
    /\ mainPc' = mainPc + 1
    /\ UNCHANGED <<prog, files, status, exitCode, unittestVars, httpVars, staticVars, stepVars, pureVars>>

\* The call raises AssertionError inside try: "Test failed" and exit(1).
CallFailsCaught ==
    /\ AtCall
    /\ Call(Main(prog)[mainPc]) = "AssertionError"
    /\ CatchesAssertionError(prog)
    /\ fnResult' = (Main(prog)[mainPc] :> "AssertionError") @@ fnResult
    /\ status' = "exited"
    /\ exitCode' = 1
    /\ UNCHANGED <<prog, files, mainPc, unittestVars, httpVars, staticVars, stepVars, pureVars>>

\* The call raises and nothing catches it: the interpreter prints the
\* traceback and the process ends with status 1.
CallRaisesUncaught ==
    /\ AtCall
    /\ Call(Main(prog)[mainPc]) # "ok"
    /\ ~(Call(Main(prog)[mainPc]) = "AssertionError" /\ CatchesAssertionError(prog))
    /\ fnResult' = (Main(prog)[mainPc] :> Call(Main(prog)[mainPc])) @@ fnResult
    /\ status' = "exited"
    /\ exitCode' = 1
    /\ UNCHANGED <<prog, files, mainPc, unittestVars, httpVars, staticVars, stepVars, pureVars>>

\* The __main__ block came to its end.
MainReturns ==
    /\ status = "running"
    /\ prog \in Scripts
    /\ mainPc > Len(Main(prog))
    /\ status' = "exited"
    /\ exitCode' = 0
    /\ UNCHANGED <<prog, files, mainPc, fnResult, unittestVars, httpVars, staticVars, stepVars, pureVars>>

AtScreenshotStep ==
    /\ status = "running"
    /\ prog = "screenshot.py"
    /\ mainPc <= Len(ScreenshotSteps)

\* The image page.screenshot(path="fixed_layout.png") writes.
Screenshot == [exists |-> TRUE, tags |-> <<{"pixels"}>>]

\* The working directory after statement k of main(): the screenshot is
\* written to fixed_layout.png there, whether or not the file existed.
FilesAfter(k) ==
    IF k = "screenshot"
      THEN [files EXCEPT !["fixed_layout.png"] = Screenshot]
      ELSE files

\* A statement of main() returns.
ScreenshotStep ==
    /\ AtScreenshotStep
    /\ files' = FilesAfter(ScreenshotSteps[mainPc])
    /\ mainPc' = mainPc + 1
    /\ UNCHANGED <<prog, fnResult, status, exitCode, unittestVars, httpVars, staticVars, stepVars, pureVars>>

\* A Playwright call of main() raises (no browser, no answer from port 8000):
\* asyncio.run lets it through and the process ends with status 1.
ScreenshotRaises ==
    /\ AtScreenshotStep
    /\ ScreenshotSteps[mainPc] # "thread"
    /\ fnResult' = ("main" :> "Error") @@ fnResult
    /\ status' = "exited"
    /\ exitCode' = 1
    /\ UNCHANGED <<prog, files, mainPc, unittestVars, httpVars, staticVars, stepVars, pureVars>>

\* os._exit(0)
ScreenshotExit ==
    /\ status = "running"
    /\ prog = "screenshot.py"
    /\ mainPc > Len(ScreenshotSteps)
    /\ status' = "exited"
    /\ exitCode' = 0
    /\ UNCHANGED <<prog, files, mainPc, fnResult, unittestVars, httpVars, staticVars, stepVars, pureVars>>

ScriptNext ==
    \/ CallReturns
    \/ CallFailsCaught
    \/ CallRaisesUncaught
    \/ MainReturns
    \/ ScreenshotStep
    \/ ScreenshotRaises
    \/ ScreenshotExit

SpecScript == ScriptInit /\ [][ScriptNext]_vars

\* C4: a failing check does not keep a sibling check from running: every
\* subTest block of a test method is entered whether or not earlier blocks
\* failed, and every test function of a script run as a program is called
\* and has an outcome of its own whether or not earlier ones failed.
C4_SiblingChecksRun ==
    /\ (phase = "tearDown" /\ cur # NoTest) =>
          \A b \in SubsOf(cur) :
              \E i \in 1..Len(trace) : Body(cur)[trace[i]].sub = b
    /\ status = "exited" =>
          \A i \in 1..Len(Main(prog)) : Main(prog)[i] \in DOMAIN fnResult

\* The exit status test_lazy_loading.py gives an assertion failure: exit(1).
AssertionExit == 1

\* C19: a program exits with status 0 exactly when every check it ran
\* passed, and the status of a run ended by a setup or fatal error (a
\* missing page file, a browser that does not start) differs from the
\* status of a run ended by an assertion failure.
C19_ExitCodeTellsOutcome ==
    status = "exited" =>
        /\ exitCode = 0 <=> \A f \in DOMAIN fnResult : fnResult[f] = "ok"
        /\ (\E f \in DOMAIN fnResult : fnResult[f] \notin {"ok", "AssertionError"})
              => exitCode # AssertionExit

\* C12: no step of a program changes the site file tree: the files of the
\* site root and the content of each are after the step what they were
\* before it.
C12_SiteTreeUnchanged == [][files' = files]_vars

----------------------------------------------------------------------------
(* The fixture server and the requests of the open pages, one by one.      *)
(* socketserver.TCPServer is not threaded: serve_forever accepts one       *)
(* connection, runs the handler to its end, then accepts the next; the     *)
(* connections made meanwhile wait in the listen queue.                    *)

\* The pages open at the same time.
MaxPages == 3

\* The requests each page issues.
MaxRequests == 2

OpenPages == 1..MaxPages

\* Variant of Enqueue in which a connection made while the server handles a
\* request is lost; C13_RequestsAnswered tells it from Enqueue.
EnqueueUnlessBusy(q, p) == IF handling # 0 THEN q ELSE Append(q, p)

\* The listen queue of the server's socket after page p connected.
Enqueue(q, p) == Append(q, p)

\* setUpClass has returned: the server thread serves, no request made yet.
ServerInit ==
    /\ RunIdle
    /\ ScriptIdle
    /\ StaticIdle
    /\ StepIdle
    /\ PureIdle
    /\ srv = "serving"
    /\ backlog = <<>>
    /\ handling = 0
    /\ req = [p \in OpenPages |-> "none"]
    /\ sent = [p \in OpenPages |-> 0]

ServerFrame == <<unittestVars, scriptVars, staticVars, stepVars, pureVars>>

\* page.goto('http://localhost:8000/...'), or the page asking for a
\* stylesheet or script: the connection enters the listen queue.
PageRequests(p) ==
    /\ srv = "serving"
    /\ req[p] \in {"none", "answered"}
    /\ sent[p] < MaxRequests
    /\ sent' = [sent EXCEPT ![p] = @ + 1]
    /\ req' = [req EXCEPT ![p] = "waiting"]
    /\ backlog' = Enqueue(backlog, p)
    /\ UNCHANGED <<srv, handling, ServerFrame>>

\* The same once the server's socket is closed: connection refused.
PageRequestRefused(p) ==
    /\ srv = "stopped"
    /\ req[p] \in {"none", "answered"}
    /\ sent[p] < MaxRequests
    /\ sent' = [sent EXCEPT ![p] = @ + 1]
    /\ req' = [req EXCEPT ![p] = "refused"]
    /\ UNCHANGED <<srv, backlog, handling, ServerFrame>>

\* serve_forever: the next connection of the listen queue is accepted.
ServerAccepts ==
    /\ srv = "serving"
    /\ handling = 0
    /\ backlog # <<>>
    /\ handling' = Head(backlog)
    /\ backlog' = Tail(backlog)
    /\ req' = [req EXCEPT ![Head(backlog)] = "handling"]
    /\ UNCHANGED <<srv, sent, ServerFrame>>

\* SimpleHTTPRequestHandler answers the request and closes the connection.
ServerResponds ==
    /\ handling # 0
    /\ req' = [req EXCEPT ![handling] = "answered"]
    /\ handling' = 0
    /\ UNCHANGED <<srv, backlog, sent, ServerFrame>>

\* tearDownClass: shutdown() waits for the request being handled, then
\* server_close() closes the socket and with it the waiting connections.
ServerStops ==
    /\ srv = "serving"
    /\ handling = 0
    /\ srv' = "stopped"
    /\ backlog' = <<>>
    /\ req' = [p \in OpenPages |-> IF req[p] = "waiting" THEN "refused" ELSE req[p]]
    /\ UNCHANGED <<handling, sent, ServerFrame>>

ServerNext ==
    \/ \E p \in OpenPages : PageRequests(p)
    \/ \E p \in OpenPages : PageRequestRefused(p)
    \/ ServerAccepts
    \/ ServerResponds
    \/ ServerStops

\* The server thread keeps running its loop.
SpecServer ==
    /\ ServerInit
    /\ [][ServerNext]_vars
    /\ WF_vars(ServerAccepts)
    /\ WF_vars(ServerResponds)

\* C13: while the server is running, a request a page has issued is
\* eventually answered, also when other pages have requests outstanding.
C13_RequestsAnswered ==
    \A p \in OpenPages :
        (req[p] = "waiting") ~> (req[p] = "answered" \/ srv # "serving")

C13_Witness ==
    /\ srv = "serving"
    /\ \E p \in OpenPages :
          /\ req[p] = "answered"
          /\ handling \notin {0, p}
          /\ \E i \in 1..Len(backlog) : backlog[i] \notin {p, handling}

----------------------------------------------------------------------------
(* The static test methods: a loop over HTML files of the working          *)
(* directory, one subTest block per file.  The method is run twice, each   *)
(* time by a new process that imports the module and lists the directory.  *)

\* How many files are edited between the start of the first run and the end
\* of the second.
MaxEdits == 1

\* The file names that may be present in the working directory.
Names == {"index.html", "index-en.html", "contact.html", "style.css"}

\* f.endswith('.html')
IsHtml(f) == f # "style.css"

\* "bak" not in f: so it is for each of Names.
NoBak(f) == f \in Names

StaticChecks ==
    {"test_meta_descriptions_present", "test_footer_links",
     "test_alpine_version", "test_internal_links"}

\* The test methods that loop over the module's ALL_HTML_FILES.
AllPagesChecks == {"test_meta_descriptions_present", "test_footer_links"}

\* The orders in which os.listdir may return the files D.
Perms(D) ==
    {q \in [1..Cardinality(D) -> D] : \A i, j \in 1..Cardinality(D) : q[i] = q[j] => i = j}

\* ALL_HTML_FILES of the module of test method ck, from the listing ls.
ALL_HTML_FILES(ck, ls) ==
    LET keep(f) == IsHtml(f) /\ (ck = "test_footer_links" => NoBak(f))
    IN  SelectSeq(ls, keep)

\* The files the loop of test method ck goes through.
Targets(ck, ls) ==
    IF ck \in AllPagesChecks THEN ALL_HTML_FILES(ck, ls)
    ELSE <<"index.html", "index-en.html">>

\* Variant of BlockOutcome in which a file that was evaluated before
\* passes; C18_SameOutcomeTwice tells it from BlockOutcome.
BlockOutcomeFirstOnly(f) ==
    IF f \notin DOMAIN tree THEN "error"
    ELSE IF tree[f] \/ \E i \in 1..Len(log) : log[i].file = f THEN "pass"
    ELSE "fail"

\* The outcome of the subTest block of file f: open() raises
\* FileNotFoundError, or the assertions on the content pass or fail.
BlockOutcome(f) ==
    IF f \notin DOMAIN tree THEN "error"
    ELSE IF tree[f] THEN "pass"
    ELSE "fail"

\* Variant of NextBlock in which the loop ends with the first block that
\* does not pass; C14_EachFileOnce tells it from NextBlock.
NextBlockStopsOnFailure(i, o) == IF o = "pass" THEN i + 1 ELSE Len(targets) + 1

\* The index the loop goes on with after block i ended with outcome o:
\* subTest keeps the exception from leaving the loop.
NextBlock(i, o) == i + 1

\* A directory, with HTML files that hold or lack what the test asserts.
Trees ==
    UNION {{t \in [D -> BOOLEAN] : \A f \in D : ~IsHtml(f) => ~t[f]} : D \in SUBSET Names}

StaticInit ==
    /\ RunIdle
    /\ ScriptIdle
    /\ HttpIdle
    /\ StepIdle
    /\ PureIdle
    /\ check \in StaticChecks
    /\ tree \in Trees
    /\ listing \in Perms(DOMAIN tree)
    /\ targets = Targets(check, listing)
    /\ ti = 1
    /\ round = 1
    /\ log = <<>>
    /\ edited = {}

StaticFrame == <<unittestVars, scriptVars, httpVars, stepVars, pureVars>>

\* with self.subTest(filepath=filepath): read the file, assert.
SubTestBlock ==
    /\ ti <= Len(targets)
    /\ log' = Append(log, [run |-> round, file |-> targets[ti],
                           outcome |-> BlockOutcome(targets[ti])])
    /\ ti' = NextBlock(ti, BlockOutcome(targets[ti]))
    /\ UNCHANGED <<check, tree, listing, targets, round, edited, StaticFrame>>

\* The test method is run a second time: the module is imported again and
\* os.listdir returns the files in some order.
SecondRun ==
    /\ round = 1
    /\ ti > Len(targets)
    /\ round' = 2
    /\ \E ls \in Perms(DOMAIN tree) :
          /\ listing' = ls
          /\ targets' = Targets(check, ls)
    /\ ti' = 1
    /\ UNCHANGED <<check, tree, log, edited, StaticFrame>>

\* Somebody edits an HTML file of the site.
EditFile(f) ==
    /\ f \in DOMAIN tree
    /\ IsHtml(f)
    /\ f \notin edited
    /\ Cardinality(edited) < MaxEdits
    /\ ~(round = 2 /\ ti > Len(targets))
    /\ tree' = [tree EXCEPT ![f] = ~@]
    /\ edited' = edited \cup {f}
    /\ UNCHANGED <<check, listing, targets, ti, round, log, StaticFrame>>

StaticNext ==
    \/ SubTestBlock
    \/ SecondRun
    \/ \E f \in Names : EditFile(f)

SpecStatic == StaticInit /\ [][StaticNext]_vars

\* The HTML files of the directory.
HtmlFiles == {f \in DOMAIN tree : IsHtml(f)}

\* The files the module of test method ck takes as the pages to test.
Discovered(ck) == {f \in HtmlFiles : ck = "test_footer_links" => NoBak(f)}

\* How often run r has evaluated file f.
Count(f, r) == Cardinality({i \in 1..Len(log) : log[i].run = r /\ log[i].file = f})

\* The files run r has evaluated, in execution order.
Order(r) ==
    LET mine(e) == e.run = r
        sub == SelectSeq(log, mine)
    IN  [i \in 1..Len(sub) |-> sub[i].file]

RoundDone(r) == round > r \/ (round = r /\ ti > Len(targets))

\* C14: a test method that targets all pages evaluates each discovered HTML
\* file once and has one outcome per file: no run evaluates a file twice or
\* a file outside the discovered set, and a completed run has evaluated
\* every discovered file.
C14_EachFileOnce ==
    check \in AllPagesChecks =>
        \A r \in {1, 2} :
            /\ \A i \in 1..Len(log) : log[i].run = r => log[i].file \in Discovered(check)
            /\ \A f \in Discovered(check) : Count(f, r) <= 1
            /\ RoundDone(r) => \A f \in Discovered(check) : Count(f, r) = 1

C14_Witness ==
    /\ check \in AllPagesChecks
    /\ RoundDone(1)
    /\ Cardinality(Discovered(check)) >= 2
    /\ log # <<>>
    /\ log[1].outcome = "fail"
    /\ edited = {}

\* C15: the shared-element test methods of test.py and the internal-link
\* test of test_links.py evaluate every HTML file of the directory.
C15_SharedChecksOnEveryFile ==
    (check \in {"test_alpine_version", "test_internal_links"} /\ RoundDone(1))
        => \A f \in HtmlFiles : Count(f, 1) >= 1

\* C16: a test method that names a page which is not among the HTML files
\* of the directory is rejected before any block runs: none of its blocks
\* is executed and the absent page gets no outcome of its own.
C16_UnknownTargetRejectedAtLoad ==
    (\E i \in 1..Len(targets) : targets[i] \notin HtmlFiles) => log = <<>>

\* C17: two runs over the same set of files execute the per-file blocks in
\* the same order, whatever order the directory listing had.
C17_SameOrderBothRuns ==
    RoundDone(2) => Order(1) = Order(2)

MaxDur == 4

\* Bound: the widest carousel that is tried, in cards.
MaxScroll == 2

\* Bound: the console messages a page emits.
MaxMsgs == 3

\* wait_for_timeout(500)
ShortSleep == 500

\* wait_for_timeout(1500)
LongSleep == 1500

\* wait_for_timeout(1000)
ErrorSleep == 1000

\* The timeout of wait_for_function and wait_for_selector when none is given.
WaitTimeout == 30000

Durations == {k * ShortSleep : k \in 0..MaxDur} \cup {WaitTimeout + 1}

St(k, a, n) == [k |-> k, a |-> a, n |-> n]

TitleSleepTest == "TestInteractions.test_main_title_animation"
TitleWaitTest  == "TestBrowserAnimations.test_main_title_animation"
ButtonsTest    == "TestWebsite.test_carousel_navigation_buttons"
KeysTest       == "TestWebsite.test_carousel_keyboard_navigation"
LazyTest       == "TestInteractions.test_lazy_loading"
ConsoleTest    == "TestBrowser.test_translation_error_handling"
IconTest       == "TestThemeIcon.test_theme_icon_toggle"

StepTests == {TitleSleepTest, TitleWaitTest, ButtonsTest, KeysTest, LazyTest,
              ConsoleTest, IconTest}

\* The statements of test method t, in program order.  Statements on what no
\* effect followed here changes (an element being found, its transform) return.
Steps(t) ==
    IF t = TitleSleepTest THEN
        <<St("goto", "title", 0), St("query", ".main-title", 0),
          St("sleep", "", LongSleep), St("assert", "opaque", 0)>>
    ELSE IF t = TitleWaitTest THEN
        <<St("goto", "title", 0), St("query", ".main-title", 0),
          St("waituntil", "opaque", 0), St("assert", "opaque", 0)>>
    ELSE IF t = ButtonsTest THEN
        <<St("goto", "carousel", 0), St("query", ".carousel-container", 0),
          St("read", "", 0),
          St("press", "next", 0), St("sleep", "", ShortSleep),
          St("read", "", 0), St("assert", "gt_first", 0),
          St("press", "prev", 0), St("sleep", "", ShortSleep),
          St("read", "", 0), St("assert", "lt_previous", 0)>>
    ELSE IF t = KeysTest THEN
        <<St("goto", "carousel", 0), St("query", ".carousel-container", 0),
          St("read", "", 0), St("query", "focus", 0),
          St("press", "ArrowRight", 0), St("sleep", "", ShortSleep),
          St("read", "", 0), St("assert", "gt_first", 0),
          St("press", "ArrowLeft", 0), St("sleep", "", ShortSleep),
          St("read", "", 0), St("assert", "eq_first", 0),
          St("press", "End", 0), St("sleep", "", ShortSleep),
          St("read", "", 0), St("assert", "gt_first", 0),
          St("press", "Home", 0), St("sleep", "", ShortSleep),
          St("read", "", 0), St("assert", "eq_first", 0)>>
    ELSE IF t = LazyTest THEN
        <<St("goto", "lazy", 0), St("query", ".lazy", 0),
          St("assert", "unloaded", 0),
          St("scroll_into_view", "", 0), St("sleep", "", ShortSleep),
          St("assert", "loaded", 0)>>
    ELSE IF t = ConsoleTest THEN
        <<St("on_console", "", 0), St("query", "route", 0),
          St("goto", "console", 0), St("sleep", "", ErrorSleep),
          St("assert", "failure_text", 0)>>
    ELSE IF t = IconTest THEN
        <<St("pwstart", "", 0), St("launch", "", 0), St("new_page", "", 0),
          St("goto", "icons", 0), St("probe", "light icon visible", 0),
          St("probe", "dark icon hidden", 0), St("query", "click", 0),
          St("sleep", "", ShortSleep), St("probe", "light icon hidden", 0),
          St("probe", "dark icon visible", 0),
          St("bclose", "", 0), St("pwstop", "", 0)>>
    ELSE <<>>

\* The statements of t inside a try statement that has a finally clause.
TryOf(t) == IF t = IconTest THEN 4..10 ELSE {}

\* The first statement of that finally clause.
FinallyOf(t) == IF t = IconTest THEN 11 ELSE 0

\* The elements a page file can give the test.
Elements(t) ==
    IF t = LazyTest THEN
        {[NoElem EXCEPT !.tag = "IMG", !.src = x] : x \in {"absent", "empty", "data-src"}}
        \cup {[NoElem EXCEPT !.tag = "DIV", !.bg = b] : b \in BOOLEAN}
    ELSE IF t \in {TitleSleepTest, TitleWaitTest} THEN {[NoElem EXCEPT !.tag = "H1"]}
    ELSE IF t \in {ButtonsTest, KeysTest} THEN {[NoElem EXCEPT !.tag = "DIV"]}
    ELSE {NoElem}

StepInit ==
    /\ RunIdle
    /\ ScriptIdle
    /\ HttpIdle
    /\ StaticIdle
    /\ PureIdle
    /\ ttest \in StepTests
    /\ tpc = 1
    /\ tout = "running"
    /\ dur = 0
    /\ pending = 0
    /\ el0 \in Elements(ttest)
    /\ el = el0
    /\ goal = el0
    /\ reads = <<>>
    /\ maxScroll \in IF ttest \in {ButtonsTest, KeysTest} THEN 0..MaxScroll ELSE {0}
    /\ emitted = <<>>
    /\ error_message = ""
    /\ driver = "none"
    /\ chromium = "none"

StepFrame == <<unittestVars, scriptVars, httpVars, staticVars, pureVars>>

AtStep(k) ==
    /\ ttest \in StepTests
    /\ tpc \in 1..Len(Steps(ttest))
    /\ Steps(ttest)[tpc].k = k

Stmt == Steps(ttest)[tpc]

Finished == ttest \in StepTests /\ tpc > Len(Steps(ttest)) /\ tout # "running"

\* The statement returns.
Returns == tpc' = tpc + 1 /\ tout' = tout

\* The statement raises: control leaves the method, through the finally clause
\* when the statement is inside the try statement.
RaisesAs(o) ==
    /\ tout' = o
    /\ tpc' = IF tpc \in TryOf(ttest) THEN FinallyOf(ttest) ELSE Len(Steps(ttest)) + 1

\* The page n milliseconds later.
Elapse(n) ==
    /\ pending' = IF pending <= n THEN 0 ELSE pending - n
    /\ el' = IF pending > 0 /\ pending <= n THEN goal ELSE el
    /\ goal' = goal

\* The page starts, on element e, an effect that takes d milliseconds and
\* leaves the element as g.
Trigger(e, g, d) ==
    /\ goal' = g
    /\ pending' = IF g = e THEN 0 ELSE d
    /\ el' = IF d = 0 THEN g ELSE e
    /\ dur' = IF d > dur THEN d ELSE dur

\* The scrollLeft a carousel at x moves to on a button or key.
SiteCarouselTarget(key, x) ==
    CASE key \in {"next", "ArrowRight"} -> IF x + 1 <= maxScroll THEN x + 1 ELSE maxScroll
      [] key \in {"prev", "ArrowLeft"}  -> IF x >= 1 THEN x - 1 ELSE 0
      [] key = "End"                    -> maxScroll
      [] key = "Home"                   -> 0

\* The lazy element once the page has loaded it.
SiteLazyLoaded(e) ==
    IF e.tag = "IMG" THEN [e EXCEPT !.src = "data-src"] ELSE [e EXCEPT !.bg = TRUE]

\* page.goto: the page is as its file gives it; the main title starts to fade in.
StepGoto ==
    /\ AtStep("goto")
    /\ IF Stmt.a = "title"
         THEN \E d \in Durations : Trigger(el0, [el0 EXCEPT !.opaque = TRUE], d)
         ELSE el' = el0 /\ goal' = el0 /\ pending' = 0 /\ dur' = dur
    /\ Returns
    /\ UNCHANGED <<ttest, el0, reads, maxScroll, emitted, error_message,
                   driver, chromium, StepFrame>>

\* query_selector, wait_for_selector, focus, route, click: nothing followed
\* here changes.
StepQuery ==
    /\ AtStep("query")
    /\ Returns
    /\ UNCHANGED <<ttest, dur, pending, goal, el, el0, reads, maxScroll, emitted,
                   error_message, driver, chromium, StepFrame>>

\* A click on a carousel button or a key pressed on the carousel.
StepPress ==
    /\ AtStep("press")
    /\ \E d \in Durations :
          Trigger(el, [el EXCEPT !.scroll = SiteCarouselTarget(Stmt.a, el.scroll)], d)
    /\ Returns
    /\ UNCHANGED <<ttest, el0, reads, maxScroll, emitted, error_message,
                   driver, chromium, StepFrame>>

\* scroll_into_view_if_needed
StepScrollIntoView ==
    /\ AtStep("scroll_into_view")
    /\ \E d \in Durations : Trigger(el, SiteLazyLoaded(el), d)
    /\ Returns
    /\ UNCHANGED <<ttest, el0, reads, maxScroll, emitted, error_message,
                   driver, chromium, StepFrame>>

\* wait_for_timeout(n): returns n milliseconds later, whatever the page did.
StepSleep ==
    /\ AtStep("sleep")
    /\ Elapse(Stmt.n)
    /\ Returns
    /\ UNCHANGED <<ttest, dur, el0, reads, maxScroll, emitted, error_message,
                   driver, chromium, StepFrame>>

\* wait_for_function(predicate): returns as soon as the predicate holds, raises
\* TimeoutError when it does not within the timeout.
StepWaitUntil ==
    /\ AtStep("waituntil")
    /\ IF el.opaque \/ (goal.opaque /\ pending <= WaitTimeout)
         THEN Elapse(pending) /\ Returns
         ELSE Elapse(WaitTimeout) /\ RaisesAs("error")
    /\ UNCHANGED <<ttest, dur, el0, reads, maxScroll, emitted, error_message,
                   driver, chromium, StepFrame>>

\* get_scroll_left
StepRead ==
    /\ AtStep("read")
    /\ reads' = Append(reads, el.scroll)
    /\ Returns
    /\ UNCHANGED <<ttest, dur, pending, goal, el, el0, maxScroll, emitted,
                   error_message, driver, chromium, StepFrame>>

\* The texts a console message can have, and those of them that contain
\* "Failed to load translations".
ConsoleTexts == {"Failed to load translations: TypeError", "net::ERR_FAILED"}
FailureTexts == {"Failed to load translations: TypeError"}

Last(q) == q[Len(q)]

\* Variant of Satisfies in which assertEqual on scrollLeft accepts any value;
\* C23_CarouselReturnsToStart tells it from Satisfies.
SatisfiesAnyScroll(r, e) ==
    CASE r = "opaque"       -> e.opaque
      [] r = "gt_first"     -> Last(reads) > reads[1]
      [] r = "eq_first"     -> TRUE
      [] r = "lt_previous"  -> Last(reads) < reads[Len(reads) - 1]
      [] r = "unloaded"     -> IF e.tag = "IMG" THEN e.src = "empty" ELSE ~e.bg
      [] r = "loaded"       -> IF e.tag = "IMG" THEN e.src = "data-src" ELSE e.bg
      [] r = "failure_text" -> error_message \in FailureTexts

\* Whether the assertion named r is satisfied, by element e where it reads one
\* and by the values read where it compares scrollLeft.
Satisfies(r, e) ==
    CASE r = "opaque"       -> e.opaque
      [] r = "gt_first"     -> Last(reads) > reads[1]
      [] r = "eq_first"     -> Last(reads) = reads[1]
      [] r = "lt_previous"  -> Last(reads) < reads[Len(reads) - 1]
      [] r = "unloaded"     -> IF e.tag = "IMG" THEN e.src = "empty" ELSE ~e.bg
      [] r = "loaded"       -> IF e.tag = "IMG" THEN e.src = "data-src" ELSE e.bg
      [] r = "failure_text" -> error_message \in FailureTexts

\* An assert method of TestCase on a value read now.  assertIn on the style of
\* an element that has none raises TypeError.
StepAssert ==
    /\ AtStep("assert")
    /\ IF Satisfies(Stmt.a, el) THEN Returns
       ELSE IF Stmt.a = "loaded" /\ el.tag # "IMG"
         THEN \E o \in {"fail", "error"} : RaisesAs(o)
         ELSE RaisesAs("fail")
    /\ UNCHANGED <<ttest, dur, pending, goal, el, el0, reads, maxScroll, emitted,
                   error_message, driver, chromium, StepFrame>>


\* An assertion on what is not followed here: it holds or it does not.
StepProbe ==
    /\ AtStep("probe")
    /\ Returns \/ RaisesAs("fail")
    /\ UNCHANGED <<ttest, dur, pending, goal, el, el0, reads, maxScroll, emitted,
                   error_message, driver, chromium, StepFrame>>

\* page.on('console', handle_console_message)
StepOnConsole ==
    /\ AtStep("on_console")
    /\ Returns
    /\ UNCHANGED <<ttest, dur, pending, goal, el, el0, reads, maxScroll, emitted,
                   error_message, driver, chromium, StepFrame>>

ConsoleMessages == [type : {"error", "log"}, text : ConsoleTexts]

\* handle_console_message(msg), called while the method awaits goto or
\* wait_for_timeout.
ConsoleMessage(msg) ==
    /\ ttest = ConsoleTest
    /\ AtStep("goto") \/ AtStep("sleep")
    /\ Len(emitted) < MaxMsgs
    /\ emitted' = Append(emitted, msg)
    /\ error_message' = IF msg.type = "error" THEN msg.text ELSE error_message
    /\ UNCHANGED <<ttest, tpc, tout, dur, pending, goal, el, el0, reads, maxScroll,
                   driver, chromium, StepFrame>>

\* async_playwright().start()
IconPlaywrightStart ==
    /\ AtStep("pwstart")
    /\ \/ driver' = "started" /\ Returns
       \/ driver' = driver /\ RaisesAs("error")
    /\ UNCHANGED <<ttest, dur, pending, goal, el, el0, reads, maxScroll, emitted,
                   error_message, chromium, StepFrame>>

\* playwright.chromium.launch()
IconLaunch ==
    /\ AtStep("launch")
    /\ \/ chromium' = "open" /\ Returns
       \/ chromium' = chromium /\ RaisesAs("error")
    /\ UNCHANGED <<ttest, dur, pending, goal, el, el0, reads, maxScroll, emitted,
                   error_message, driver, StepFrame>>

\* browser.new_page()
IconNewPage ==
    /\ AtStep("new_page")
    /\ Returns \/ RaisesAs("error")
    /\ UNCHANGED <<ttest, dur, pending, goal, el, el0, reads, maxScroll, emitted,
                   error_message, driver, chromium, StepFrame>>

\* browser.close() of async_teardown: when it raises the browser may or may
\* not have closed.
IconBrowserClose ==
    /\ AtStep("bclose")
    /\ \/ chromium' = "closed" /\ Returns
       \/ chromium' \in {"open", "closed"} /\ RaisesAs("error")
    /\ UNCHANGED <<ttest, dur, pending, goal, el, el0, reads, maxScroll, emitted,
                   error_message, driver, StepFrame>>

\* playwright.stop() of async_teardown
IconPlaywrightStop ==
    /\ AtStep("pwstop")
    /\ \/ driver' = "stopped" /\ Returns
       \/ driver' = driver /\ RaisesAs("error")
    /\ UNCHANGED <<ttest, dur, pending, goal, el, el0, reads, maxScroll, emitted,
                   error_message, chromium, StepFrame>>

\* The method returns: the test passes.
StepReturns ==
    /\ ttest \in StepTests
    /\ tpc = Len(Steps(ttest)) + 1
    /\ tout = "running"
    /\ tout' = "pass"
    /\ UNCHANGED <<ttest, tpc, dur, pending, goal, el, el0, reads, maxScroll,
                   emitted, error_message, driver, chromium, StepFrame>>

StepNext ==
    \/ StepGoto
    \/ StepQuery
    \/ StepPress
    \/ StepScrollIntoView
    \/ StepSleep
    \/ StepWaitUntil
    \/ StepRead
    \/ StepAssert
    \/ StepProbe
    \/ StepOnConsole
    \/ \E msg \in ConsoleMessages : ConsoleMessage(msg)
    \/ IconPlaywrightStart
    \/ IconLaunch
    \/ IconNewPage
    \/ IconBrowserClose
    \/ IconPlaywrightStop
    \/ StepReturns

SpecStep == StepInit /\ [][StepNext]_vars


\* ---- Claims on the test methods followed statement by statement ----

\* The lazy element as the claim has it before it enters the viewport.
Unloaded(e) == IF e.tag = "IMG" THEN e.src \in {"absent", "empty"} ELSE ~e.bg

KeysPast(i) == ttest = KeysTest /\ tpc > i /\ tout \in {"running", "pass"}

AnimTests == {TitleSleepTest, TitleWaitTest, ButtonsTest, KeysTest}

\* The kind of the last sleep or wait among the first i statements of t.
RECURSIVE LastWait(_, _)
LastWait(t, i) ==
    IF i = 0 THEN "none"
    ELSE IF Steps(t)[i].k \in {"sleep", "waituntil"} THEN Steps(t)[i].k
    ELSE LastWait(t, i - 1)

\* C24: an assertion on an animated property is evaluated after a wait for a
\* predicate, never after a fixed sleep, and the outcome of the test does not
\* depend on how long the animation takes as long as it takes at most the
\* timeout.
C24_WaitsUntilPredicate ==
    ttest \in AnimTests =>
        /\ AtStep("assert") => LastWait(ttest, tpc) # "sleep"
        /\ (Finished /\ dur <= WaitTimeout
              /\ (ttest \in {ButtonsTest, KeysTest} => maxScroll >= 1))
             => tout = "pass"

\* C24, the case that refutes it: the title is opaque after two seconds and
\* the test that slept for 1.5 seconds has failed.
C24_Witness ==
    /\ Finished
    /\ ttest = TitleSleepTest
    /\ dur > LongSleep
    /\ dur <= WaitTimeout
    /\ tout = "fail"

\* C29: test_translation_error_handling passes when the page has emitted,
\* during the wait, a console error containing 'Failed to load translations',
\* whatever else it emitted before or after.
C29_FailureMessageSeen ==
    (/\ Finished
     /\ ttest = ConsoleTest
     /\ \E i \in 1..Len(emitted) :
            emitted[i].type = "error" /\ emitted[i].text \in FailureTexts)
        => tout = "pass"

C29_Witness ==
    /\ Finished
    /\ ttest = ConsoleTest
    /\ Len(emitted) = 2
    /\ emitted[1].type = "error"
    /\ emitted[1].text \in FailureTexts
    /\ emitted[2].type = "error"
    /\ tout = "fail"

\* C30: when test_theme_icon_toggle has returned or raised, the driver it
\* started is stopped and the browser it launched is closed.
C30_DriverAndBrowserReleased ==
    (Finished /\ ttest = IconTest) => driver # "started" /\ chromium # "open"

C30_Witness ==
    /\ Finished
    /\ ttest = IconTest
    /\ driver = "started"
    /\ chromium = "none"
    /\ tout = "error"


\* ---------------------------------------------------------------------------
\* Checks that are functions of the content of one page.
\* ---------------------------------------------------------------------------

\* Bound: the href values of a page.
MaxLinks == 2

\* Bound: the div elements of class rounded-lg of a page.
MaxDivs == 2

\* The files of the site: dir is "" for a file of the directory the tests run in.
SiteFiles ==
    {[dir |-> "", name |-> "index.html"], [dir |-> "", name |-> "style.css"],
     [dir |-> "css/", name |-> "style.css"]}

\* ALL_FILES: the names os.listdir('.') gives that are files.
ALL_FILES == {f.name : f \in {g \in SiteFiles : g.dir = ""}}

\* An href value is the concatenation of its four parts.
Hrefs ==
    [scheme : {"", "https://", "mailto:", "#"}, dir : {"", "css/"},
     name : {"index.html", "style.css", "missing.html"}, frag : {"", "#top"}]

\* link.startswith(('http://', 'https://', 'mailto:', '#'))
Skipped(h) == h.scheme \in {"http://", "https://", "mailto:", "#"}

\* link in ALL_FILES: the whole href value is one of the names.
InAllFiles(h) == h.scheme = "" /\ h.dir = "" /\ h.frag = "" /\ h.name \in ALL_FILES

\* The loop over the links of one page: the first link that is neither skipped
\* nor in ALL_FILES fails the subtest.
RECURSIVE LinksVerdict(_)
LinksVerdict(links) ==
    IF links = <<>> THEN "pass"
    ELSE IF ~Skipped(Head(links)) /\ ~InAllFiles(Head(links)) THEN "fail"
    ELSE LinksVerdict(Tail(links))

\* A div of class rounded-lg: the form it contains, if any, by its attributes
\* and its input of type email.
NoForm == [form |-> FALSE, action |-> FALSE, method |-> FALSE, email |-> "none"]
RoundedDivs ==
    {NoForm} \cup [form : {TRUE}, action : BOOLEAN, method : BOOLEAN,
                   email : {"none", "unnamed", "named"}]

\* The assertions of test_newsletter_form_attributes on a form.
FormPasses(d) == d.action /\ d.method /\ d.email # "none" /\ d.email = "named"

\* One subtest of test_newsletter_form_attributes: soup.find gives the first
\* div of class rounded-lg, and the form is looked for in that div.
NewsletterVerdict(ds) ==
    IF ds = <<>> THEN "pass"
    ELSE IF ~Head(ds).form THEN "pass"
    ELSE IF FormPasses(Head(ds)) THEN "pass" ELSE "fail"

TitleOfTestBrowser == "Event Horizon - Dans les coulisses de l'industrie spatiale européenne"
TitleOfTestBrowserAnimations == "Event Horizon - Votre source sur l'industrie spatiale européenne"

Titles == {TitleOfTestBrowser, TitleOfTestBrowserAnimations, "Event Horizon"}

\* Variant of ExpectedTitle in which the two test_page_title methods expect
\* the same title; C27_TitleTestsExclusive tells it from ExpectedTitle.
ExpectedTitleSame(c) == TitleOfTestBrowser

\* The title test_page_title of class c compares with.
ExpectedTitle(c) ==
    IF c = "TestBrowser" THEN TitleOfTestBrowser ELSE TitleOfTestBrowserAnimations

\* test_page_title of class c: assertEqual(page.title(), expected).
TitleVerdict(c, t) == IF t = ExpectedTitle(c) THEN "pass" ELSE "fail"

PureInit ==
    /\ RunIdle
    /\ ScriptIdle
    /\ HttpIdle
    /\ StaticIdle
    /\ StepIdle
    /\ fn \in {"test_internal_links", "test_newsletter_form_attributes", "test_page_title"}
    /\ hrefs \in IF fn = "test_internal_links" THEN SeqsUpTo(Hrefs, MaxLinks) ELSE {<<>>}
    /\ roundedDivs \in IF fn = "test_newsletter_form_attributes"
                         THEN SeqsUpTo(RoundedDivs, MaxDivs) ELSE {<<>>}
    /\ title \in IF fn = "test_page_title" THEN Titles ELSE {""}
    /\ verdict = <<>>

PureFrame == <<unittestVars, scriptVars, httpVars, staticVars, stepVars>>

ApplyLinks ==
    /\ fn = "test_internal_links"
    /\ verdict = <<>>
    /\ verdict' = <<LinksVerdict(hrefs)>>
    /\ UNCHANGED <<fn, hrefs, roundedDivs, title, PureFrame>>

ApplyNewsletter ==
    /\ fn = "test_newsletter_form_attributes"
    /\ verdict = <<>>
    /\ verdict' = <<NewsletterVerdict(roundedDivs)>>
    /\ UNCHANGED <<fn, hrefs, roundedDivs, title, PureFrame>>

\* Both test_page_title methods, on the same index.html.
ApplyTitles ==
    /\ fn = "test_page_title"
    /\ verdict = <<>>
    /\ verdict' = <<TitleVerdict("TestBrowser", title),
                    TitleVerdict("TestBrowserAnimations", title)>>
    /\ UNCHANGED <<fn, hrefs, roundedDivs, title, PureFrame>>

PureNext == ApplyLinks \/ ApplyNewsletter \/ ApplyTitles

SpecPure == PureInit /\ [][PureNext]_vars

\* ---- Claims on these checks ----

\* The href value points to a file of the site.
PointsToFile(h) == [dir |-> h.dir, name |-> h.name] \in SiteFiles

\* C25: test_internal_links fails for a page exactly when one of its href
\* values that is not external, mailto or '#' does not point to an existing
\* file; an href that points to an existing file is never reported as broken.
C25_BrokenExactlyWhenFileMissing ==
    (fn = "test_internal_links" /\ verdict # <<>>) =>
        (verdict[1] = "fail"
           <=> \E i \in 1..Len(hrefs) : ~Skipped(hrefs[i]) /\ ~PointsToFile(hrefs[i]))

\* C25, the case that refutes it: the only link of the page points to a file
\* in a subdirectory and the subtest has failed.
C25_Witness ==
    /\ fn = "test_internal_links"
    /\ hrefs = <<[scheme |-> "", dir |-> "css/", name |-> "style.css", frag |-> ""]>>
    /\ verdict = <<"fail">>

\* C26: on a page with a newsletter form inside a div of class rounded-lg,
\* test_newsletter_form_attributes fails unless the form has an action, a
\* method and an input of type email that has a name.
C26_DeficientFormFails ==
    (/\ fn = "test_newsletter_form_attributes"
     /\ verdict # <<>>
     /\ \E i \in 1..Len(roundedDivs) :
            /\ roundedDivs[i].form
            /\ ~(/\ roundedDivs[i].action
                 /\ roundedDivs[i].method
                 /\ roundedDivs[i].email = "named"))
       => verdict[1] = "fail"

\* C26, the case that refutes it: the form is in the second div of class
\* rounded-lg, has no action, and the subtest has passed.
C26_Witness ==
    /\ fn = "test_newsletter_form_attributes"
    /\ Len(roundedDivs) = 2
    /\ ~roundedDivs[1].form
    /\ roundedDivs[2].form
    /\ ~roundedDivs[2].action
    /\ verdict = <<"pass">>

\* C27: no title of index.html makes both test_page_title of test_browser.py
\* and test_page_title of test_browser_animations.py pass.
C27_TitleTestsExclusive ==
    (fn = "test_page_title" /\ verdict # <<>>)
        => ~(verdict[1] = "pass" /\ verdict[2] = "pass")

C27_Witness ==
    /\ fn = "test_page_title"
    /\ title = TitleOfTestBrowser
    /\ verdict = <<"pass", "fail">>

====
